---- MODULE Spec2Model ----
(***************************************************************************)
(* Model of the trend_scrapper pipelines: fetch a trend list, run a        *)
(* bounded-concurrency retrieval stage over its items, run a bounded-      *)
(* concurrency LLM analysis stage over the retrieval results, assemble and *)
(* save a report.                                                          *)
(*                                                                         *)
(* One run of one script is modelled.  The script, its environment (API    *)
(* keys), the answer of the trend source and the files left on disk by     *)
(* earlier runs are chosen in Init; the answers of the per-item upstream   *)
(* calls (Gemini, youtube_transcript_api, Firecrawl, OpenAI) are chosen    *)
(* when the call returns.                                                  *)
(***************************************************************************)
EXTENDS Naturals, Integers, Sequences, FiniteSets, TLC

VARIABLES
    script,         \* which script / pipeline function runs
    env,            \* the API keys present in the environment
    video_limit,    \* VIDEOS_TO_PROCESS_LIMIT / video_limit (0: None, no limit)
    resp,           \* what the trend source answers to this run's fetch
    replies,        \* what the LLM may answer to an analysis call of this run
    queries_file,   \* trend_queries.md on disk (NoFile, or the lines it holds)
    budget,         \* irregular upstream answers still to come (-1: any number)
    pc,             \* position of main(): start, fetch, retrieval, analysis, exit
    exit,           \* how main() ended ("" while it runs)
    items,          \* the source items handed to the retrieval stage, in input order
    rstate,         \* per item: state of its retrieval task
    attempt,        \* per item: the retry loop's attempt number
    slept,          \* per item: the sleeps its retry loop has taken, in seconds
    answered,       \* per item: the last answer its upstream call got (NoCall: none yet)
    rslots,         \* per item: the result slot of the retrieval gather
    rsem,           \* retrieval semaphore value / idle executor workers
    all_results,    \* without llm.py: the list appended to as futures complete
    ainput,         \* the list the analysis stage runs over
    astate,         \* per analysis input: state of its analysis task
    aslots,         \* per analysis input: the result slot of the analysis gather
    aprompt,        \* per analysis input: the prompt its call was issued with (<< >>: none)
    aanswered,      \* per analysis input: the answer its call got (NoCall: none yet)
    asem,           \* analysis semaphore value
    report,         \* the final report (NoReport until assembled)
    files,          \* names of the files written by this run
    calls,          \* network calls attempted by this run, by kind
    raised,         \* TRUE once an exception has escaped a gather
    copy,           \* SpecExtract: which copy of extract_video_id is called ("": none)
    url,            \* SpecExtract: the URL it is called with, as a sequence of pieces
    extracted,      \* SpecExtract: what the call returned or raised (NoResult: not yet)
    app,            \* SpecApp: the Streamlit app that is running ("": none)
    session_type,   \* SpecApp: st.session_state['analysis_type'] ("": not set)
    session_report, \* SpecApp: st.session_state['report_data'] (Absent: not set)
    rendered,       \* SpecApp: what the last script run drew of the report section
    clicks,         \* SpecApp: Start Analysis clicks so far
    keywords,       \* SpecQuery: trend.get("keywords"), each keyword a sequence of pieces
    query_line,     \* SpecQuery: the query line generated from them (<< >>: not yet)
    search_text     \* SpecQuery: the worker's actual_query (NoResult: not yet)

extractVars == << copy, url, extracted >>
appVars == << app, session_type, session_report, rendered, clicks >>
queryVars == << keywords, query_line, search_text >>
runVars == << script, env, video_limit, resp, replies, extractVars, appVars, queryVars >>
retrievalVars == << items, rstate, attempt, slept, answered, rslots, rsem, all_results >>
analysisVars == << ainput, astate, aslots, aprompt, aanswered, asem >>

vars == << runVars, queries_file, budget, pc, exit, retrievalVars, analysisVars,
           report, files, calls, raised >>

-----------------------------------------------------------------------------
(* Bounds of the model *)

\* longest trend list the trend source answers with in Spec
MaxTrending == 2
\* longest list of retrieval results the analysis stage is given in SpecAnalysis
MaxAnalysed == 2
\* in SpecLimit the trend source answers with limit + Overflow usable records
Overflow == 1
\* irregular upstream answers (a failure, an answer that overtakes the answer to an
\* earlier call) in a SpecLimit run
MaxIrregularAtLimit == 1
\* length of the non-empty text an upstream service answers with
TextLen == 20000
\* report items of one report in a session of the app
MaxShown == 2
\* Start Analysis clicks in a session of the app
MaxClicks == 2
\* longest list the trend source answers with in the short runs of SpecLive
MaxLiveTrending == 1
\* keywords of one trend in SpecQuery
MaxKeywords == 6

-----------------------------------------------------------------------------
(* Program constants *)

\* transcript_semaphore = asyncio.Semaphore(10)
TranscriptSemaphore == 10
\* ThreadPoolExecutor(max_workers=10)
ExecutorMaxWorkers == 10
\* scrape_semaphore = asyncio.Semaphore(15)
ScrapeSemaphore == 15
\* analysis_semaphore = asyncio.Semaphore(10)
AnalysisSemaphore == 10
\* VIDEOS_TO_PROCESS_LIMIT = 10, video_limit: int = 10
VIDEOS_TO_PROCESS_LIMIT == 10
\* keywords[:5]
TopKeywords == 5
\* fetch_transcript_with_gemini: max_retries = 3
GeminiMaxRetries == 3
\* fetch_transcript_with_gemini: base_delay = 5
base_delay == 5
\* fetch_transcript_for_video(..., max_retries=3)
ThreadMaxRetries == 3
\* fetch_transcript_for_video: time.sleep(2)
RetryDelay == 2
\* transcript_data['transcript'][:15000], trend_data['scraped_content'][:15000]
ContentLimit == 15000

-----------------------------------------------------------------------------
(* Scripts *)

YT_MAIN == "Youtube/main.py"
YT_PROXY == "Youtube/main (proxy).py"
YT_NOLLM == "Youtube/without llm.py"
YT_ANALYZER == "Streamlit/youtube_analyzer.py"
GOOGLE_V2 == "Google V2/google_trend_trending_now.py"
GOOGLE_APP == "Streamlit/app.py + google_analyzer.py"
TWITTER == "Twitter/twitter_trends_apify.py"

GeminiScripts == {YT_MAIN, YT_ANALYZER}
ThreadScripts == {YT_PROXY, YT_NOLLM}
YouTubeScripts == GeminiScripts \cup ThreadScripts
GoogleScripts == {GOOGLE_V2, GOOGLE_APP}
PipelineScripts == YouTubeScripts \cup GoogleScripts
Scripts == PipelineScripts \cup {TWITTER}

\* the API keys a script hands to the services it calls
KeysUsed(s) ==
    CASE s = YT_MAIN     -> {"SearchAPI_KEY", "OPENAI_API_KEY", "GEMINI_API_KEY"}
      [] s = YT_ANALYZER -> {"SearchAPI_KEY", "OPENAI_API_KEY", "GEMINI_API_KEY"}
      [] s = YT_PROXY    -> {"SearchAPI_KEY", "OPENAI_API_KEY"}
      [] s = YT_NOLLM    -> {"SearchAPI_KEY"}
      [] s = GOOGLE_V2   -> {"SearchAPI_KEY", "FIRECRAWL_API_KEY", "OPENAI_API_KEY"}
      [] s = GOOGLE_APP  -> {"SearchAPI_KEY", "FIRECRAWL_API_KEY", "OPENAI_API_KEY"}
      [] s = TWITTER     -> {"APIFY_KEY"}

\* the keys whose absence the script tests before it goes on
\* (`if not all([...]): return`, `if not api_key: return`)
KeysChecked(s) ==
    CASE s = YT_MAIN     -> {"SearchAPI_KEY", "OPENAI_API_KEY", "GEMINI_API_KEY"}
      [] s = YT_ANALYZER -> {"GEMINI_API_KEY"}
      [] s = YT_PROXY    -> {"SearchAPI_KEY", "OPENAI_API_KEY"}
      [] s = YT_NOLLM    -> {"SearchAPI_KEY"}
      [] s = GOOGLE_V2   -> {"SearchAPI_KEY", "FIRECRAWL_API_KEY", "OPENAI_API_KEY"}
      [] s = GOOGLE_APP  -> {"SearchAPI_KEY", "FIRECRAWL_API_KEY", "OPENAI_API_KEY"}
      [] s = TWITTER     -> {}

\* the keys the caller has tested before it calls the pipeline function:
\* app.py, `if not all([searchapi_key, openai_api_key])`
KeysCheckedByCaller(s) ==
    IF s = YT_ANALYZER THEN {"SearchAPI_KEY", "OPENAI_API_KEY"} ELSE {}

-----------------------------------------------------------------------------
(* Values *)

\* a file that does not exist / a report that was never assembled
NoFile == << [missing |-> "file"] >>
NoReport == << [missing |-> "report"] >>
\* an empty gather slot
NoResult == [pending |-> TRUE]
\* Python's None, as returned by search_and_scrape_task
None == [none |-> TRUE]

Min(a, b) == IF a < b THEN a ELSE b

RECURSIVE SeqSet(_, _)
\* all sequences over S of length at most n
SeqSet(S, n) ==
    IF n = 0 THEN { << >> }
    ELSE LET shorter == SeqSet(S, n - 1)
         IN  shorter \cup { Append(q, x) : q \in { r \in shorter : Len(r) = n - 1 }, x \in S }

Range(q) == { q[k] : k \in 1..Len(q) }

\* q[:n]
Prefix(q, n) == SubSeq(q, 1, Min(n, Len(q)))

-----------------------------------------------------------------------------
(* The trend source's answers *)

\* A record of a YouTube 'trending' list, at position pos of the list:
\*   ok        link and title present, link of a supported YouTube shape
\*   bad_url   link and title present, link of no supported shape
\*   no_link   title only          no_title  link only
VideoKinds == {"ok", "bad_url", "no_link", "no_title"}
\* A record of a Google 'trends' list: with keywords, or with none
TrendKinds == {"kw", "no_kw"}

\* the list whose k-th record is of kind kinds[k]; a record is known by its position
Records(kinds) == [k \in 1..Len(kinds) |-> [pos |-> k, kind |-> kinds[k]]]

HttpError == [kind |-> "http_error"]
\* a JSON object without the 'trending' / 'trends' key
NoListKey == [kind |-> "no_list_key"]
Listing(recs) == [kind |-> "list", recs |-> recs]

\* raise_for_status raised / fetch_google_trends returned {}
FetchFailedNever(r) == FALSE
FetchFailed(r) == r = HttpError
\* data['trending'] / trends_data["trends"]; << >> when the key is missing or the list empty
TrendList(r) == IF r.kind = "list" THEN r.recs ELSE << >>

Responses(kinds, n) ==
    {HttpError, NoListKey} \cup { Listing(Records(q)) : q \in SeqSet(kinds, n) }

ResponsesOf(s, n) ==
    IF s \in YouTubeScripts THEN Responses(VideoKinds, n)
    ELSE IF s \in GoogleScripts THEN Responses(TrendKinds, n)
    ELSE {HttpError, Listing(<< >>)}

\* a query line left in trend_queries.md by an earlier run
StaleQuery == [query |-> 0]

-----------------------------------------------------------------------------
(* Source items *)

\* {'link': v.get('link'), 'title': v.get('title')} for v in data['trending']
\*     if v.get('link') and v.get('title')
HasLinkAndTitle(v) == v.kind \in {"ok", "bad_url"}
VideoItem(v) == [title |-> v.pos, link |-> v.kind]

MapVideo(q) == [k \in 1..Len(q) |-> VideoItem(q[k])]

videos_to_process(recs) == MapVideo(SelectSeq(recs, HasLinkAndTitle))

\* if limit is not None and limit > 0: videos_to_process[:limit]
ApplyVideoLimit(videos, limit) == IF limit > 0 THEN Prefix(videos, limit) ELSE videos

\* generate_and_save_queries / generate_trend_queries: one line per trend with keywords
HasKeywords(t) == t.kind = "kw"
QueryLine(t) == [query |-> t.pos]
generate_queries(recs) ==
    LET kept == SelectSeq(recs, HasKeywords)
    IN  [k \in 1..Len(kept) |-> QueryLine(kept[k])]

-----------------------------------------------------------------------------
(* Upstream answers to one per-item call *)

\* text: a body of `len` characters (0: the empty string)
Text(n) == [kind |-> "text", len |-> n]
\* google_exceptions.ResourceExhausted
RateLimit == [kind |-> "rate_limit"]
\* any other exception of the call
CallError == [kind |-> "error"]
\* Firecrawl: a result without data or without markdown
NoData == [kind |-> "no_data"]
\* no call was made
NoCall == [kind |-> "no_call"]

GeminiAnswers == {Text(TextLen), Text(0), RateLimit, CallError}
TranscriptApiAnswers == {Text(TextLen), Text(0), CallError}
FirecrawlAnswers == {Text(TextLen), NoData, CallError}
\* OpenAI: function_call.arguments that json.loads parses to an object of the
\* requested shape, to null, or to another object (no category, a summary of six
\* points); arguments that json.loads rejects; a failure of the call
JsonAnalysis == [kind |-> "json"]
JsonNull == [kind |-> "json_null"]
JsonOther == [kind |-> "json_other"]
NotJson == [kind |-> "not_json"]
OpenAIAnswers == {JsonAnalysis, JsonNull, JsonOther, NotJson, CallError}

\* The irregular answers use the budget: an answer other than the regular one, and
\* an answer to the call of item i that arrives while an earlier item awaits its own
IsFault(a) == a.kind \notin {"json", "no_call"} /\ a # Text(TextLen)
Overtakes(state, i) == \E j \in 1..(i - 1) : state[j] \in {"calling", "running"}
Cost(state, i, a) ==
    (IF IsFault(a) THEN 1 ELSE 0) + (IF Overtakes(state, i) THEN 1 ELSE 0)
MayAnswer(state, i, a) == budget = -1 \/ budget >= Cost(state, i, a)
Charge(state, i, a) == IF budget = -1 THEN budget ELSE budget - Cost(state, i, a)

-----------------------------------------------------------------------------
(* Retrieval results *)

\* extract_video_id: the id for a supported shape, ValueError otherwise
UrlSupported(link) == link = "ok"
extract_video_id(item) == << "id", item.title >>

InvalidUrl == "Invalid or unsupported YouTube URL format"
RateLimited == "All retry attempts failed due to rate limiting."

\* video_id = extract_video_id(url) / except ValueError: video_id = "unknown"
VideoIdOrUnknown(item) ==
    IF UrlSupported(item.link) THEN extract_video_id(item) ELSE << "unknown" >>

Success(item, text) ==
    [title |-> item.title, video_url |-> item.link, video_id |-> extract_video_id(item),
     status |-> "Success", transcript |-> text.len]

FailedWithoutError(item, video_id, error) ==
    [title |-> item.title, video_url |-> item.link, video_id |-> video_id,
     status |-> "Failed"]
Failed(item, video_id, error) ==
    [title |-> item.title, video_url |-> item.link, video_id |-> video_id,
     status |-> "Failed", error |-> error]

\* an exception that leaves the task
Raise(e) == [raise |-> e]
IsRaise(r) == "raise" \in DOMAIN r

\* fetch_transcript_with_gemini, `except Exception as e`: a Failed result, never a raise
gemini_except_reraise(item, e) == Raise(e)
gemini_except(item, e) == Failed(item, VideoIdOrUnknown(item), e)

\* fetch_transcript_with_gemini, the body of one attempt once the call has answered
\* text: Success, or the ValueError of extract_video_id caught by `except Exception`
gemini_on_text(item, text) ==
    IF UrlSupported(item.link) THEN Success(item, text)
    ELSE gemini_except(item, InvalidUrl)

\* after the loop: every attempt was rate limited
gemini_exhausted(item) == Failed(item, VideoIdOrUnknown(item), RateLimited)

\* fetch_transcript_for_video: the result after the last failed attempt
thread_exhausted(s, item) ==
    LET error == IF UrlSupported(item.link) THEN "All attempts failed. Last error: api error"
                 ELSE "All attempts failed. Last error: Invalid or unsupported YouTube URL format"
        video_id == IF s = YT_NOLLM THEN VideoIdOrUnknown(item) ELSE << "unknown" >>
    IN  Failed(item, video_id, error)

\* search_and_scrape_task
actual_query(line) == line.query
Scraped(line, text) == [trend_query |-> actual_query(line), scraped_content |-> text.len]
scrape_except(line, e) == None

-----------------------------------------------------------------------------
(* Analysis results *)

Sentinel ==
    [context |-> << "Error during analysis." >>,
     summary |-> << "Could not generate summary points." >>,
     category |-> "Error"]

\* content[:15000]
NoTruncate(n) == n
Truncate(n) == Min(n, ContentLimit)

\* analyze_transcript_with_openai: which prompt is built
TakesContentPathOnStatus(r) == "status" \in DOMAIN r /\ r.status = "Success"
TakesContentPath(r) ==
    /\ "status" \in DOMAIN r /\ r.status = "Success"
    /\ "transcript" \in DOMAIN r /\ r.transcript # 0

PromptYouTube(r) ==
    IF TakesContentPath(r) THEN << "content", r.title, Truncate(r.transcript) >>
    ELSE << "title only", r.title >>

\* analyze_with_openai / analyze_scraped_content
PromptGoogle(r) == << "content", r.trend_query, Truncate(r.scraped_content) >>

Prompt(s, r) == IF s \in GoogleScripts THEN PromptGoogle(r) ELSE PromptYouTube(r)

\* json.loads(response...arguments): the model's analysis of that prompt
Analysis(prompt) ==
    [context |-> prompt, summary |-> << "points" >>, category |-> "Category"]
\* json.loads of arguments that hold an object of another shape
OtherObject(prompt) ==
    [context |-> prompt, summary |-> << "p1", "p2", "p3", "p4", "p5", "p6" >>]

analysis_except_reraise(e) == Raise(e)
analysis_except(e) == Sentinel

-----------------------------------------------------------------------------
(* The pools *)

\* Semaphore(n) / ThreadPoolExecutor(max_workers=n) of a script's retrieval stage
RetrievalLimit(s) ==
    IF s \in GeminiScripts THEN TranscriptSemaphore
    ELSE IF s \in ThreadScripts THEN ExecutorMaxWorkers
    ELSE ScrapeSemaphore

\* Semaphore.acquire does not block / a worker is idle
CanAcquireAlways(value) == TRUE
CanAcquire(value) == value > 0

\* asyncio.Semaphore wakes its waiters first in, first out, and the tasks were
\* created in input order; the executor's work queue is first in, first out
IsNext(state, i) == state[i] = "pending" /\ \A j \in 1..(i - 1) : state[j] # "pending"

\* asyncio.gather: the result of the i-th awaitable is element i of the list
SetSlotFirstFree(slots, i, r) ==
    LET free == { k \in 1..Len(slots) : slots[k] = NoResult }
        first == CHOOSE k \in free : \A m \in free : k <= m
    IN  [slots EXCEPT ![first] = r]
SetSlot(slots, i, r) == [slots EXCEPT ![i] = r]

InFlightStates == {"calling", "sleeping", "running"}
InFlight(state) == Cardinality({ i \in 1..Len(state) : state[i] \in InFlightStates })
\* every awaited task has returned (AnyDone: the first of them has)
AnyDone(state) == \E i \in 1..Len(state) : state[i] = "done"
AllDone(state) == \A i \in 1..Len(state) : state[i] = "done"

Fill(n, x) == [k \in 1..n |-> x]

-----------------------------------------------------------------------------
(* Initial states *)

\* what a script run drew: whether the report section was begun, the positions of the
\* report items it showed, and the exception that ended the run ("": none)
Render(header, shown, error) == [header |-> header, shown |-> shown, error |-> error]
\* 'report_data' not in st.session_state
Absent == [shape |-> "absent", items |-> << >>]
\* no Streamlit app is running
NoApp ==
    /\ app = "" /\ session_type = "" /\ session_report = Absent
    /\ rendered = Render(FALSE, << >>, "") /\ clicks = 0

\* no query line is under test
NoQuery == keywords = << >> /\ query_line = << >> /\ search_text = NoResult

\* no call of extract_video_id is under test
NoExtract == copy = "" /\ url = << >> /\ extracted = NoResult

InitRun ==
    /\ pc = "start"
    /\ exit = ""
    /\ items = << >>
    /\ rstate = << >>
    /\ attempt = << >>
    /\ slept = << >>
    /\ answered = << >>
    /\ rslots = << >>
    /\ rsem = 0
    /\ all_results = << >>
    /\ ainput = << >>
    /\ astate = << >>
    /\ aslots = << >>
    /\ aprompt = << >>
    /\ aanswered = << >>
    /\ asem = 0
    /\ report = NoReport
    /\ files = {}
    /\ calls = {}
    /\ raised = FALSE
    /\ NoExtract
    /\ NoApp
    /\ NoQuery

\* A run whose trend list is longer than the retrieval stage's limit: every record
\* usable, every key present, at most MaxIrregularAtLimit irregular upstream answers
LimitScripts == {YT_MAIN, YT_ANALYZER, YT_PROXY, GOOGLE_V2}
LongListing(s) ==
    Listing(Records(Fill(RetrievalLimit(s) + Overflow,
                         IF s \in GoogleScripts THEN "kw" ELSE "ok")))

InitLimit ==
    /\ script \in LimitScripts
    /\ env = KeysUsed(script)
    \* main.py keeps VIDEOS_TO_PROCESS_LIMIT; run_youtube_analysis_pipeline is given
    \* video_limit=None by its caller
    /\ video_limit = IF script = YT_MAIN THEN VIDEOS_TO_PROCESS_LIMIT ELSE 0
    /\ resp = LongListing(script)
    /\ replies = {JsonAnalysis, CallError}
    /\ queries_file = NoFile
    /\ budget = MaxIrregularAtLimit
    /\ InitRun

Init ==
    /\ script \in Scripts
    /\ env \in { e \in SUBSET KeysUsed(script) : KeysCheckedByCaller(script) \subseteq e }
    /\ video_limit = IF script \in GeminiScripts THEN VIDEOS_TO_PROCESS_LIMIT ELSE 0
    /\ resp \in ResponsesOf(script, MaxTrending)
    \* the replies of other shapes are those of SpecAnalysis
    /\ replies = {JsonAnalysis, CallError}
    /\ queries_file \in IF script = GOOGLE_V2 THEN {NoFile, << StaleQuery >>} ELSE {NoFile}
    /\ budget = -1
    /\ InitRun

-----------------------------------------------------------------------------
(* main(), up to the first gather *)

Exit(how) == pc' = "exit" /\ exit' = how

\* if not all([searchapi_key, ...]): print(...); return
check_keys ==
    /\ pc = "start"
    /\ IF KeysChecked(script) \subseteq env
       THEN pc' = "fetch" /\ exit' = exit
       ELSE Exit("missing keys")
    /\ UNCHANGED << runVars, queries_file, budget, retrievalVars, analysisVars,
                    report, files, calls, raised >>

\* the retrieval tasks are created, one per item, and main() awaits them
StartRetrieval(list) ==
    /\ items' = list
    /\ rstate' = Fill(Len(list), "pending")
    /\ attempt' = Fill(Len(list), 0)
    /\ slept' = Fill(Len(list), << >>)
    /\ answered' = Fill(Len(list), NoCall)
    /\ rslots' = Fill(Len(list), NoResult)
    /\ rsem' = RetrievalLimit(script)
    /\ all_results' = << >>
    /\ pc' = "retrieval"
    /\ exit' = exit

NoRetrieval(how) ==
    /\ Exit(how)
    /\ UNCHANGED retrievalVars

\* YouTube scripts: requests.get, raise_for_status, the 'trending' test, the item list
fetch_youtube_trends ==
    /\ pc = "fetch"
    /\ script \in YouTubeScripts
    /\ calls' = calls \cup {"trends"}
    /\ files' = IF script = YT_NOLLM /\ ~FetchFailed(resp)
                THEN files \cup {"youtube_trends_output.json"} ELSE files
    /\ IF FetchFailed(resp) THEN NoRetrieval("fetch failed")
       ELSE IF TrendList(resp) = << >> THEN NoRetrieval("no trending")
       ELSE LET videos == ApplyVideoLimit(videos_to_process(TrendList(resp)), video_limit)
            IN  IF videos = << >> THEN NoRetrieval("no videos")
                ELSE StartRetrieval(videos)
    /\ UNCHANGED << runVars, queries_file, budget, analysisVars, report, raised >>

\* generate_and_save_queries: the file is written unless there are no trends
QueriesFileAfter(r, file) ==
    IF TrendList(r) = << >> THEN file ELSE generate_queries(TrendList(r))

\* Google V2 main(): fetch_google_trends, generate_and_save_queries, read the queries back
fetch_google_trends_v2 ==
    /\ pc = "fetch"
    /\ script = GOOGLE_V2
    /\ calls' = calls \cup {"trends"}
    /\ IF FetchFailed(resp)
       THEN /\ NoRetrieval("fetch failed")
            /\ UNCHANGED << queries_file, files >>
       ELSE /\ queries_file' = QueriesFileAfter(resp, queries_file)
            /\ files' = IF TrendList(resp) = << >> THEN files
                        ELSE files \cup {"trend_queries.md"}
            /\ IF queries_file' = NoFile THEN NoRetrieval("queries file not found")
               ELSE IF queries_file' = << >> THEN NoRetrieval("no queries")
               ELSE StartRetrieval(queries_file')
    /\ UNCHANGED << runVars, budget, analysisVars, report, raised >>

\* run_google_analysis_pipeline: fetch_google_trends, generate_trend_queries
fetch_google_trends_app ==
    /\ pc = "fetch"
    /\ script = GOOGLE_APP
    /\ calls' = calls \cup {"trends"}
    /\ IF FetchFailed(resp) THEN NoRetrieval("fetch failed")
       ELSE LET all_queries == generate_queries(TrendList(resp))
            IN  IF all_queries = << >> THEN NoRetrieval("no queries")
                ELSE StartRetrieval(all_queries)
    /\ UNCHANGED << runVars, queries_file, budget, analysisVars, report, files, raised >>

\* twitter_trends_apify.py main(): ApifyClient(apify_api_key), the actor call, the print
twitter_main ==
    /\ pc = "fetch"
    /\ script = TWITTER
    /\ calls' = calls \cup {"apify"}
    /\ Exit(IF FetchFailed(resp) THEN "fetch failed" ELSE "completed")
    /\ UNCHANGED << runVars, queries_file, budget, retrievalVars, analysisVars,
                    report, files, raised >>

-----------------------------------------------------------------------------
(* The retrieval stage *)

Sleep(seconds) == [sleep |-> seconds]
IsSleep(o) == "sleep" \in DOMAIN o

\* 2 ** attempt (TwiceN: 2 * attempt)
TwiceN(n) == 2 * n
Pow2(n) == IF n = 0 THEN 1 ELSE IF n = 1 THEN 2 ELSE IF n = 2 THEN 4 ELSE 8

\* a stage whose items keep their permit when they return
ApplyOutcomeKeepPermit(i, a, o) ==
    /\ answered' = [answered EXCEPT ![i] = a]
    /\ IF IsSleep(o)
       THEN /\ rstate' = [rstate EXCEPT ![i] = "sleeping"]
            /\ slept' = [slept EXCEPT ![i] = Append(@, o.sleep)]
            /\ UNCHANGED << items, attempt, rslots, rsem, all_results, pc, exit,
                            raised >>
       ELSE /\ rstate' = [rstate EXCEPT ![i] = "done"]
            /\ rslots' = SetSlot(rslots, i, o)
            /\ all_results' = IF script = YT_NOLLM THEN Append(all_results, o) ELSE all_results
            /\ UNCHANGED << items, attempt, slept, rsem, pc, exit, raised >>

\* an outcome `o` of one attempt of item i, which got answer `a`, applied to the stage:
\* a sleep keeps the permit, a raise leaves the gather, a result fills the slot
ApplyOutcome(i, a, o) ==
    /\ answered' = [answered EXCEPT ![i] = a]
    /\ IF IsSleep(o)
       THEN /\ rstate' = [rstate EXCEPT ![i] = "sleeping"]
            /\ slept' = [slept EXCEPT ![i] = Append(@, o.sleep)]
            /\ UNCHANGED << items, attempt, rslots, rsem, all_results, pc, exit,
                            raised >>
       ELSE IF IsRaise(o)
       THEN /\ raised' = TRUE
            /\ Exit("exception")
            /\ UNCHANGED << items, rstate, attempt, slept, rslots, rsem, all_results >>
       ELSE /\ rstate' = [rstate EXCEPT ![i] = "done"]
            /\ rslots' = SetSlot(rslots, i, o)
            /\ all_results' = IF script = YT_NOLLM THEN Append(all_results, o) ELSE all_results
            /\ rsem' = rsem + 1
            /\ UNCHANGED << items, attempt, slept, pc, exit, raised >>

\* a retriever that starts its first call without taking a permit
gemini_acquire_unmetered(i) ==
    /\ pc = "retrieval"
    /\ script \in GeminiScripts
    /\ IsNext(rstate, i)
    /\ rstate' = [rstate EXCEPT ![i] = "calling"]
    /\ calls' = calls \cup {"gemini"}
    /\ UNCHANGED << runVars, queries_file, budget, pc, exit, items, attempt, slept, answered,
                    rslots, rsem, all_results, analysisVars, report, files, raised >>

\* `async with semaphore:` entered, the first generate_content_async call issued
gemini_acquire(i) ==
    /\ pc = "retrieval"
    /\ script \in GeminiScripts
    /\ IsNext(rstate, i)
    /\ CanAcquire(rsem)
    /\ rstate' = [rstate EXCEPT ![i] = "calling"]
    /\ rsem' = rsem - 1
    /\ calls' = calls \cup {"gemini"}
    /\ UNCHANGED << runVars, queries_file, budget, pc, exit, items, attempt, slept, answered,
                    rslots, all_results, analysisVars, report, files, raised >>

\* a retriever that backs off after every failure, not only after ResourceExhausted
gemini_attempt_retry_all(item, att, a) ==
    CASE a.kind = "text" -> gemini_on_text(item, a)
      [] OTHER ->
            IF att < GeminiMaxRetries - 1 THEN Sleep(base_delay * Pow2(att))
            ELSE gemini_exhausted(item)

\* fetch_transcript_with_gemini: one pass of `for attempt in range(max_retries)`
\* once generate_content_async has answered `a`
gemini_attempt(item, att, a) ==
    CASE a.kind = "text" -> gemini_on_text(item, a)
      [] a.kind = "rate_limit" ->
            IF att < GeminiMaxRetries - 1 THEN Sleep(base_delay * Pow2(att))
            ELSE gemini_exhausted(item)
      [] OTHER -> gemini_except(item, "upstream error")

gemini_return(i) ==
    /\ pc = "retrieval"
    /\ script \in GeminiScripts
    /\ rstate[i] = "calling"
    /\ \E a \in GeminiAnswers :
          /\ MayAnswer(rstate, i, a)
          /\ budget' = Charge(rstate, i, a)
          /\ ApplyOutcome(i, a, gemini_attempt(items[i], attempt[i], a))
    /\ UNCHANGED << runVars, queries_file, analysisVars, report, files, calls >>

\* asyncio.sleep(wait_time) is over: the next attempt's call is issued
gemini_wake(i) ==
    /\ pc = "retrieval"
    /\ script \in GeminiScripts
    /\ rstate[i] = "sleeping"
    /\ rstate' = [rstate EXCEPT ![i] = "calling"]
    /\ attempt' = [attempt EXCEPT ![i] = @ + 1]
    /\ calls' = calls \cup {"gemini"}
    /\ UNCHANGED << runVars, queries_file, budget, pc, exit, items, slept, answered, rslots,
                    rsem, all_results, analysisVars, report, files, raised >>

\* an executor worker takes the next queued fetch_transcript_for_video
thread_start(i) ==
    /\ pc = "retrieval"
    /\ script \in ThreadScripts
    /\ IsNext(rstate, i)
    /\ CanAcquire(rsem)
    /\ rstate' = [rstate EXCEPT ![i] = "running"]
    /\ rsem' = rsem - 1
    /\ UNCHANGED << runVars, queries_file, budget, pc, exit, items, attempt, slept, answered,
                    rslots, all_results, analysisVars, report, files, calls, raised >>

\* when extract_video_id raises, get_transcript is not called
TranscriptApiAnswersFor(item) ==
    IF UrlSupported(item.link) THEN TranscriptApiAnswers ELSE {NoCall}

\* fetch_transcript_for_video: one pass of `for attempt in range(max_retries + 1)`
\* (thread_attempt_one_more: of a loop over range(max_retries + 2))
thread_attempt_one_more(s, item, att, a) ==
    IF a.kind = "text" THEN Success(item, a)
    ELSE IF att < ThreadMaxRetries + 1 THEN Sleep(RetryDelay)
    ELSE thread_exhausted(s, item)
thread_attempt_outcome(s, item, att, a) ==
    IF a.kind = "text" THEN Success(item, a)
    ELSE IF att < ThreadMaxRetries THEN Sleep(RetryDelay)
    ELSE thread_exhausted(s, item)

thread_attempt(i) ==
    /\ pc = "retrieval"
    /\ script \in ThreadScripts
    /\ rstate[i] = "running"
    /\ \E a \in TranscriptApiAnswersFor(items[i]) :
          /\ MayAnswer(rstate, i, a)
          /\ budget' = Charge(rstate, i, a)
          /\ calls' = IF a = NoCall THEN calls ELSE calls \cup {"youtube_transcript_api"}
          /\ ApplyOutcome(i, a, thread_attempt_outcome(script, items[i], attempt[i], a))
    /\ UNCHANGED << runVars, queries_file, analysisVars, report, files >>

\* time.sleep(2) is over
thread_wake(i) ==
    /\ pc = "retrieval"
    /\ script \in ThreadScripts
    /\ rstate[i] = "sleeping"
    /\ rstate' = [rstate EXCEPT ![i] = "running"]
    /\ attempt' = [attempt EXCEPT ![i] = @ + 1]
    /\ UNCHANGED << runVars, queries_file, budget, pc, exit, items, slept, answered, rslots,
                    rsem, all_results, analysisVars, report, files, calls, raised >>

\* search_and_scrape_task: `async with semaphore:` entered, app.search issued
scrape_acquire(i) ==
    /\ pc = "retrieval"
    /\ script \in GoogleScripts
    /\ IsNext(rstate, i)
    /\ CanAcquire(rsem)
    /\ rstate' = [rstate EXCEPT ![i] = "calling"]
    /\ rsem' = rsem - 1
    /\ calls' = calls \cup {"firecrawl"}
    /\ UNCHANGED << runVars, queries_file, budget, pc, exit, items, attempt, slept, answered,
                    rslots, all_results, analysisVars, report, files, raised >>

\* search_and_scrape_task once app.search has answered `a`
scrape_outcome(line, a) ==
    CASE a.kind = "text" -> Scraped(line, a)
      [] a.kind = "no_data" -> None
      [] OTHER -> scrape_except(line, "upstream error")

scrape_return(i) ==
    /\ pc = "retrieval"
    /\ script \in GoogleScripts
    /\ rstate[i] = "calling"
    /\ \E a \in FirecrawlAnswers :
          /\ MayAnswer(rstate, i, a)
          /\ budget' = Charge(rstate, i, a)
          /\ ApplyOutcome(i, a, scrape_outcome(items[i], a))
    /\ UNCHANGED << runVars, queries_file, analysisVars, report, files, calls >>

-----------------------------------------------------------------------------
(* From the retrieval gather to the analysis gather *)

\* the analysis tasks are created, one per element of `list`, and main() awaits them
StartAnalysis(list) ==
    /\ ainput' = list
    /\ astate' = Fill(Len(list), "pending")
    /\ aslots' = Fill(Len(list), NoResult)
    /\ aprompt' = Fill(Len(list), << >>)
    /\ aanswered' = Fill(Len(list), NoCall)
    /\ asem' = AnalysisSemaphore
    /\ pc' = "analysis"
    /\ exit' = exit

\* [res for res in results if res]
IsScraped(r) == r # None
scraped_results(results) == SelectSeq(results, IsScraped)

\* the file the report is saved to (the Streamlit pipeline functions return it)
ReportFile(s) ==
    CASE s \in {YT_MAIN, YT_PROXY} -> {"final_analysis_report.json"}
      [] s = YT_NOLLM -> {"all_transcripts.json"}
      [] s = GOOGLE_V2 -> {"trend_analysis_report.json"}
      [] OTHER -> {}

\* `await asyncio.gather(*tasks)` / `with ThreadPoolExecutor` returns: every task is done
gather_retrieval ==
    /\ pc = "retrieval"
    /\ AllDone(rstate)
    /\ CASE script = YT_NOLLM ->
              \* all_transcripts.json <- {"video_transcripts_and_titles": all_results}
              /\ report' = all_results
              /\ files' = files \cup ReportFile(script)
              /\ Exit("completed")
              /\ UNCHANGED analysisVars
         [] script \in {YT_MAIN, YT_PROXY, YT_ANALYZER} ->
              /\ StartAnalysis(rslots)
              /\ UNCHANGED << report, files >>
         [] script = GOOGLE_V2 ->
              /\ files' = files \cup {"trend_scrape.json"}
              /\ report' = report
              /\ IF scraped_results(rslots) = << >>
                 THEN Exit("no scraped content") /\ UNCHANGED analysisVars
                 ELSE StartAnalysis(scraped_results(rslots))
         [] script = GOOGLE_APP ->
              /\ UNCHANGED << report, files >>
              /\ IF scraped_results(rslots) = << >>
                 THEN Exit("no scraped content") /\ UNCHANGED analysisVars
                 ELSE StartAnalysis(scraped_results(rslots))
    /\ UNCHANGED << runVars, queries_file, budget, retrievalVars, calls, raised >>

\* `async with semaphore:` entered, the prompt built, chat.completions.create issued
analysis_acquire(k) ==
    /\ pc = "analysis"
    /\ IsNext(astate, k)
    /\ CanAcquire(asem)
    /\ astate' = [astate EXCEPT ![k] = "calling"]
    /\ asem' = asem - 1
    /\ aprompt' = [aprompt EXCEPT ![k] = Prompt(script, ainput[k])]
    /\ calls' = calls \cup {"openai"}
    /\ UNCHANGED << runVars, queries_file, budget, pc, exit, retrievalVars, ainput, aslots,
                    aanswered, report, files, raised >>

\* the analyzer once chat.completions.create has answered `a`
analysis_outcome(s, r, a) ==
    CASE a = JsonAnalysis -> Analysis(Prompt(s, r))
      [] a = JsonNull -> None
      [] a = JsonOther -> OtherObject(Prompt(s, r))
      [] OTHER -> analysis_except("upstream or parse error")

analysis_return(k) ==
    /\ pc = "analysis"
    /\ astate[k] = "calling"
    /\ \E a \in replies :
          /\ MayAnswer(astate, k, a)
          /\ budget' = Charge(astate, k, a)
          /\ aanswered' = [aanswered EXCEPT ![k] = a]
          /\ LET o == analysis_outcome(script, ainput[k], a)
             IN  IF IsRaise(o)
                 THEN /\ raised' = TRUE
                      /\ Exit("exception")
                      /\ UNCHANGED << astate, aslots, asem >>
                 ELSE /\ astate' = [astate EXCEPT ![k] = "done"]
                      /\ aslots' = SetSlot(aslots, k, o)
                      /\ asem' = asem + 1
                      /\ UNCHANGED << pc, exit, raised >>
    /\ UNCHANGED << runVars, queries_file, retrievalVars, ainput, aprompt, report, files,
                    calls >>

\* del combined_item[...] for each key of ks
RemoveKeys(r, ks) == [f \in DOMAIN r \ ks |-> r[f]]
\* combined_item["llm_analysis"] = llm_analyses[i]
WithAnalysis(r, a) ==
    [f \in DOMAIN r \cup {"llm_analysis"} |-> IF f = "llm_analysis" THEN a ELSE r[f]]

\* the report item built from element r of the analysed list and its analysis a
ReportItem(s, r, a) ==
    CASE s = YT_MAIN -> WithAnalysis(RemoveKeys(r, {"transcript", "status"}), a)
      [] s \in {YT_PROXY, YT_ANALYZER} -> WithAnalysis(r, a)
      [] s = GOOGLE_V2 -> [trend_query |-> r.trend_query, llm_analysis |-> a]
      [] s = GOOGLE_APP -> [trend_query |-> r.trend_query,
                            scraped_content |-> r.scraped_content, llm_analysis |-> a]

\* a report that pairs the items with the analyses in reverse order
final_report_reversed(s, results, llm_analyses) ==
    [k \in 1..Len(results) |->
        ReportItem(s, results[k], llm_analyses[Len(results) + 1 - k])]

\* for i, item in enumerate(results): ... llm_analyses[i]
final_report(s, results, llm_analyses) ==
    [k \in 1..Len(results) |-> ReportItem(s, results[k], llm_analyses[k])]

\* `llm_analyses = await asyncio.gather(*analysis_tasks)` returns; the report is
\* assembled and saved (the Streamlit pipeline functions return it)
gather_analysis ==
    /\ pc = "analysis"
    /\ AllDone(astate)
    /\ report' = final_report(script, ainput, aslots)
    /\ files' = files \cup ReportFile(script)
    /\ Exit("completed")
    /\ UNCHANGED << runVars, queries_file, budget, retrievalVars, analysisVars, calls, raised >>

-----------------------------------------------------------------------------
(* Specifications *)

Next ==
    \/ check_keys
    \/ fetch_youtube_trends
    \/ fetch_google_trends_v2
    \/ fetch_google_trends_app
    \/ twitter_main
    \/ \E i \in 1..Len(rstate) : gemini_acquire(i)
    \/ \E i \in 1..Len(rstate) : gemini_return(i)
    \/ \E i \in 1..Len(rstate) : gemini_wake(i)
    \/ \E i \in 1..Len(rstate) : thread_start(i)
    \/ \E i \in 1..Len(rstate) : thread_attempt(i)
    \/ \E i \in 1..Len(rstate) : thread_wake(i)
    \/ \E i \in 1..Len(rstate) : scrape_acquire(i)
    \/ \E i \in 1..Len(rstate) : scrape_return(i)
    \/ gather_retrieval
    \/ \E k \in 1..Len(astate) : analysis_acquire(k)
    \/ \E k \in 1..Len(astate) : analysis_return(k)
    \/ gather_analysis

Spec == Init /\ [][Next]_vars

\* the actions of the scripts of LimitScripts
NextLimit ==
    \/ check_keys
    \/ fetch_youtube_trends
    \/ fetch_google_trends_v2
    \/ \E i \in 1..Len(rstate) : gemini_acquire(i)
    \/ \E i \in 1..Len(rstate) : gemini_return(i)
    \/ \E i \in 1..Len(rstate) : gemini_wake(i)
    \/ \E i \in 1..Len(rstate) : thread_start(i)
    \/ \E i \in 1..Len(rstate) : thread_attempt(i)
    \/ \E i \in 1..Len(rstate) : thread_wake(i)
    \/ \E i \in 1..Len(rstate) : scrape_acquire(i)
    \/ \E i \in 1..Len(rstate) : scrape_return(i)
    \/ gather_retrieval
    \/ \E k \in 1..Len(astate) : analysis_acquire(k)
    \/ \E k \in 1..Len(astate) : analysis_return(k)
    \/ gather_analysis

SpecLimit == InitLimit /\ [][NextLimit]_vars

\* Runs of both kinds, short lists with every pattern of answers and lists longer than
\* the limit, under a scheduler that runs a task that is ready and upstream services
\* that answer every call
InitLive ==
    /\ script \in YouTubeScripts
    /\ \E long \in BOOLEAN :
       IF long THEN InitLimit
       ELSE /\ env \in { e \in SUBSET KeysUsed(script) : KeysCheckedByCaller(script) \subseteq e }
            /\ video_limit = IF script \in GeminiScripts THEN VIDEOS_TO_PROCESS_LIMIT ELSE 0
            /\ resp \in ResponsesOf(script, MaxLiveTrending)
            /\ replies = {JsonAnalysis, CallError}
            /\ queries_file = NoFile
            /\ budget = -1
            /\ InitRun

\* the actions of the YouTube scripts
NextLive ==
    \/ check_keys
    \/ fetch_youtube_trends
    \/ \E i \in 1..Len(rstate) : gemini_acquire(i)
    \/ \E i \in 1..Len(rstate) : gemini_return(i)
    \/ \E i \in 1..Len(rstate) : gemini_wake(i)
    \/ \E i \in 1..Len(rstate) : thread_start(i)
    \/ \E i \in 1..Len(rstate) : thread_attempt(i)
    \/ \E i \in 1..Len(rstate) : thread_wake(i)
    \/ gather_retrieval
    \/ \E k \in 1..Len(astate) : analysis_acquire(k)
    \/ \E k \in 1..Len(astate) : analysis_return(k)
    \/ gather_analysis

SpecLive == InitLive /\ [][NextLive]_vars /\ WF_vars(NextLive)

-----------------------------------------------------------------------------
(* The analysis stage on its own: main() at the point where the retrieval gather has
   returned, for every list of up to MaxAnalysed retrieval results with contents of
   the lengths around the analyzer's limit, and every reply of the LLM *)

AnalysisScripts == PipelineScripts \ {YT_NOLLM}

ContentLengths == {0, 1, ContentLimit - 1, ContentLimit, ContentLimit + 1, TextLen}

\* the answers a retrieval may have ended on
FinalAnswers(s) ==
    IF s \in GoogleScripts THEN { Text(n) : n \in ContentLengths \ {0} }
    ELSE { Text(n) : n \in ContentLengths } \cup {CallError}

\* retry attempts the retriever of script s has made when it returns on answer a
AttemptsBefore(s, a) ==
    IF s \in ThreadScripts /\ a.kind # "text" THEN ThreadMaxRetries ELSE 0

\* the result of the retriever of script s that ended on answer a
RetrievalResultOf(s, item, a) ==
    IF s \in GoogleScripts THEN scrape_outcome(item, a)
    ELSE IF s \in GeminiScripts THEN gemini_attempt(item, 0, a)
    ELSE thread_attempt_outcome(s, item, AttemptsBefore(s, a), a)

InitAnalysis ==
    /\ script \in AnalysisScripts
    /\ env = KeysUsed(script)
    /\ video_limit = IF script \in GeminiScripts THEN VIDEOS_TO_PROCESS_LIMIT ELSE 0
    /\ replies = OpenAIAnswers
    /\ budget = -1
    /\ \E final \in SeqSet(FinalAnswers(script), MaxAnalysed) \ { << >> } :
          LET n == Len(final)
          IN  /\ resp = Listing(Records(Fill(n, IF script \in GoogleScripts THEN "kw"
                                                                            ELSE "ok")))
              /\ items = IF script \in GoogleScripts THEN generate_queries(TrendList(resp))
                         ELSE videos_to_process(TrendList(resp))
              /\ answered = final
              /\ attempt = [i \in 1..n |-> AttemptsBefore(script, final[i])]
              /\ slept = [i \in 1..n |-> Fill(attempt[i], RetryDelay)]
              /\ rslots = [i \in 1..n |-> RetrievalResultOf(script, items[i], final[i])]
              /\ rstate = Fill(n, "done")
              /\ ainput = rslots
              /\ astate = Fill(n, "pending")
              /\ aslots = Fill(n, NoResult)
              /\ aprompt = Fill(n, << >>)
              /\ aanswered = Fill(n, NoCall)
    /\ queries_file = IF script = GOOGLE_V2 THEN items ELSE NoFile
    /\ files = IF script = GOOGLE_V2 THEN {"trend_queries.md", "trend_scrape.json"} ELSE {}
    /\ calls = {"trends"} \cup (IF script \in GoogleScripts THEN {"firecrawl"}
                                ELSE IF script \in GeminiScripts THEN {"gemini"}
                                ELSE {"youtube_transcript_api"})
    /\ rsem = RetrievalLimit(script)
    /\ asem = AnalysisSemaphore
    /\ all_results = << >>
    /\ report = NoReport
    /\ pc = "analysis"
    /\ exit = ""
    /\ raised = FALSE
    /\ NoExtract
    /\ NoApp
    /\ NoQuery

NextAnalysis ==
    \/ \E k \in 1..Len(astate) : analysis_acquire(k)
    \/ \E k \in 1..Len(astate) : analysis_return(k)
    \/ gather_analysis

SpecAnalysis == InitAnalysis /\ [][NextAnalysis]_vars

-----------------------------------------------------------------------------
(* extract_video_id on its own: one call of one copy of the function with one URL.
   A URL is a sequence of pieces, each a literal of the patterns, "?" or "&", or a
   run of characters that holds neither "?" nor "&" *)

Schemes == { << >>, << "https://" >> }
Wwws == { << >>, << "www." >> }
Pres == { << >>, << "not" >> }
Hosts == { "youtube.com/", "youtu.be/", "other.com/" }
Paths == { << >>, << "watch", "?", "v=" >>, << "embed/" >>,
           << "watch", "?", "list=L", "&", "v=" >> }
Ids == { << >>, << "ID" >> }
Tails == { << >>, << "&", "t=1" >>, << "?", "t=1" >> }

Urls ==
    { s \o w \o n \o << h >> \o p \o i \o t :
        s \in Schemes, w \in Wwws, n \in Pres, h \in Hosts, p \in Paths,
        i \in Ids, t \in Tails }

\* A pattern: optional pieces, literal pieces, then a group of one or more pieces
\* outside `stop`
Pattern(opt, lit, stop) == [opt |-> opt, lit |-> lit, stop |-> stop]

\* main.py, main (proxy).py, without llm.py, youtube_analyzer.py, Streamlit_yt.py
\* (re.search) and yt_transcript.py (re.match)
FullPatterns ==
    << Pattern(<< "https://", "www." >>, << "youtube.com/", "watch", "?", "v=" >>, {"&"}),
       Pattern(<< "https://" >>, << "youtu.be/" >>, {"?", "&"}),
       Pattern(<< "https://", "www." >>, << "youtube.com/", "embed/" >>, {"?", "&"}) >>
\* Streamlit/test.py
ShortPatterns ==
    << Pattern(<< >>, << "watch", "?", "v=" >>, {"&"}),
       Pattern(<< >>, << "youtu.be/" >>, {"?", "&"}),
       Pattern(<< >>, << "embed/" >>, {"?", "&"}) >>

COPY_MAIN == "Youtube/main.py extract_video_id"
COPY_TRANSCRIPT == "Youtube/yt_transcript.py extract_video_id"
COPY_TEST == "Streamlit/test.py extract_video_id"
Copies == {COPY_MAIN, COPY_TRANSCRIPT, COPY_TEST}

PatternsOf(c) == IF c = COPY_TEST THEN ShortPatterns ELSE FullPatterns
\* re.match tries position 1 only, re.search every position from the left
Anchored(c) == c = COPY_TRANSCRIPT

RECURSIVE SkipOptional(_, _, _)
\* (?:...)? for each optional piece in turn
SkipOptional(q, p, opt) ==
    IF opt = << >> THEN p
    ELSE SkipOptional(q, IF p <= Len(q) /\ q[p] = Head(opt) THEN p + 1 ELSE p, Tail(opt))

HasAt(q, p, lit) == p + Len(lit) - 1 <= Len(q) /\ SubSeq(q, p, p + Len(lit) - 1) = lit

\* ([^&]+): the longest run of pieces outside `stop` that starts at p
Group(q, p, stop) ==
    LET ends == { e \in (p - 1)..Len(q) : \A j \in p..e : q[j] \notin stop }
        last == CHOOSE e \in ends : \A f \in ends : f <= e
    IN  SubSeq(q, p, last)

\* the group of a match of the pattern that starts at p (<< >>: no match there)
MatchAt(pat, q, p) ==
    LET start == SkipOptional(q, p, pat.opt)
    IN  IF HasAt(q, start, pat.lit) THEN Group(q, start + Len(pat.lit), pat.stop)
        ELSE << >>

\* re.match(pattern, url) / re.search(pattern, url): match.group(1), << >> for None
MatchGroup(pat, q, anchored) ==
    LET at == { p \in 1..(IF anchored THEN 1 ELSE Len(q)) : MatchAt(pat, q, p) # << >> }
    IN  IF at = {} THEN << >>
        ELSE MatchAt(pat, q, CHOOSE p \in at : \A r \in at : p <= r)

RECURSIVE FirstMatch(_, _, _)
\* for pattern in patterns: ... if match: return match.group(1)
FirstMatch(pats, q, anchored) ==
    IF pats = << >> THEN << >>
    ELSE LET g == MatchGroup(Head(pats), q, anchored)
         IN  IF g # << >> THEN g ELSE FirstMatch(Tail(pats), q, anchored)

Returned(id) == [id |-> id]
\* copy c of extract_video_id called with URL q
extract_video_id_of(c, q) ==
    LET g == FirstMatch(PatternsOf(c), q, Anchored(c))
    IN  IF g # << >> THEN Returned(g) ELSE Raise("ValueError")

InitExtract ==
    /\ copy \in Copies
    /\ url \in Urls
    /\ extracted = NoResult
    /\ script = YT_MAIN
    /\ env = {}
    /\ video_limit = 0
    /\ resp = HttpError
    /\ replies = {}
    /\ queries_file = NoFile
    /\ budget = -1
    /\ pc = "start" /\ exit = ""
    /\ items = << >> /\ rstate = << >> /\ attempt = << >> /\ slept = << >>
    /\ answered = << >> /\ rslots = << >> /\ rsem = 0 /\ all_results = << >>
    /\ ainput = << >> /\ astate = << >> /\ aslots = << >> /\ aprompt = << >>
    /\ aanswered = << >> /\ asem = 0
    /\ report = NoReport /\ files = {} /\ calls = {} /\ raised = FALSE
    /\ NoApp
    /\ NoQuery

call_extract_video_id ==
    /\ copy \in Copies
    /\ extracted = NoResult
    /\ extracted' = extract_video_id_of(copy, url)
    /\ UNCHANGED << script, env, video_limit, resp, replies, copy, url, appVars, queryVars,
                    queries_file, budget, pc, exit, retrievalVars, analysisVars, report,
                    files, calls, raised >>

NextExtract == call_extract_video_id

SpecExtract == InitExtract /\ [][NextExtract]_vars

-----------------------------------------------------------------------------
(* The combined Streamlit apps: a session of Start Analysis clicks and reruns. One click
   runs one pipeline to its end; the pipeline is taken by what it returns *)

APP == "Streamlit/app.py"
TEST_APP == "Streamlit/test.py"
GOOGLE_TRENDS == "Google Trends"
YOUTUBE_TRENDS == "YouTube Trends"

\* the pipeline a click runs: test.py has its own copies, the Google one as
\* google_analyzer.py, the YouTube one as main (proxy).py
PipelineOf(a, t) ==
    IF t = GOOGLE_TRENDS THEN GOOGLE_APP
    ELSE IF a = APP THEN YT_ANALYZER ELSE YT_PROXY

\* the keys tested before the pipeline runs (app.py 47, 58; test.py 108, 214)
KeysTested(t) ==
    IF t = GOOGLE_TRENDS THEN {"SearchAPI_KEY", "FIRECRAWL_API_KEY", "OPENAI_API_KEY"}
    ELSE {"SearchAPI_KEY", "OPENAI_API_KEY"}

\* the answers the retrieval of an item of a returned report ended on, and the replies
\* its analysis got
AppFinalAnswers(s) == IF s \in GoogleScripts THEN {Text(TextLen)} ELSE {Text(TextLen), CallError}
AppReplies == {JsonAnalysis, JsonNull, CallError}

\* the item lists of the reports pipeline s can return
ReportsOf(s) ==
    UNION { { LET n == Len(final)
                  recs == Records(Fill(n, IF s \in GoogleScripts THEN "kw" ELSE "ok"))
                  list == IF s \in GoogleScripts THEN generate_queries(recs)
                          ELSE videos_to_process(recs)
                  results == [k \in 1..n |->
                                 RetrievalResultOf(s, list[k], final[k])]
                  llm_analyses == [k \in 1..n |->
                                      analysis_outcome(s, results[k], reply[k])]
              IN  final_report(s, results, llm_analyses) :
              reply \in { r \in SeqSet(AppReplies, MaxShown) : Len(r) = Len(final) } } :
            final \in SeqSet(AppFinalAnswers(s), MaxShown) \ { << >> } }

\* json: a top-level list / an object with the list under "final_report"
ReportData(t, list) ==
    [shape |-> IF t = GOOGLE_TRENDS THEN "list" ELSE "object", items |-> list]

\* what the `if start_button:` block ends with: "none" (st.error, nothing stored),
\* "report" (report_data stored) or "raise"
StartOutcomes(a, t, keys) ==
    IF ~(KeysTested(t) \subseteq keys) THEN { [kind |-> "none"] }
    ELSE IF a = APP /\ t = YOUTUBE_TRENDS
    \* run_youtube_analysis_pipeline() missing 1 required positional argument
    THEN { [kind |-> "raise", error |-> "TypeError"] }
    ELSE { [kind |-> "none"] } \cup
         { [kind |-> "report", data |-> ReportData(t, list)] :
             list \in ReportsOf(PipelineOf(a, t)) }

\* if analysis and analysis.get("context") != "Error during analysis."
IsShownGoogle(item) ==
    /\ item.llm_analysis # None
    /\ item.llm_analysis.context # Sentinel.context

\* the `if 'report_data' in st.session_state:` block
display(t, data) ==
    IF data = Absent THEN Render(FALSE, << >>, "")
    ELSE LET n == Len(data.items)
             IsShown(k) == IsShownGoogle(data.items[k])
             \* analysis.get on None
             broken == { k \in 1..n : data.items[k].llm_analysis = None }
             first == IF broken = {} THEN n + 1
                      ELSE CHOOSE k \in broken : \A j \in broken : k <= j
         IN  IF t = GOOGLE_TRENDS
             THEN \* a dict iterates over its keys: 'str' object has no attribute 'get'
                  IF data.shape = "list"
                  THEN Render(TRUE, SelectSeq([k \in 1..n |-> k], IsShown), "")
                  ELSE Render(TRUE, << >>, "AttributeError")
             ELSE \* 'list' object has no attribute 'get'
                  IF data.shape = "object"
                  THEN Render(TRUE, [k \in 1..(first - 1) |-> k],
                              IF broken = {} THEN "" ELSE "AttributeError")
                  ELSE Render(TRUE, << >>, "AttributeError")

AppEnvironments ==
    { {"SearchAPI_KEY", "FIRECRAWL_API_KEY", "OPENAI_API_KEY"},
      {"SearchAPI_KEY", "OPENAI_API_KEY"}, {} }

InitApp ==
    /\ app \in {APP, TEST_APP}
    /\ env \in AppEnvironments
    /\ session_type = "" /\ session_report = Absent
    /\ rendered = Render(FALSE, << >>, "") /\ clicks = 0
    /\ script = GOOGLE_APP
    /\ video_limit = 0
    /\ resp = HttpError
    /\ replies = AppReplies
    /\ queries_file = NoFile
    /\ budget = -1
    /\ pc = "start" /\ exit = ""
    /\ items = << >> /\ rstate = << >> /\ attempt = << >> /\ slept = << >>
    /\ answered = << >> /\ rslots = << >> /\ rsem = 0 /\ all_results = << >>
    /\ ainput = << >> /\ astate = << >> /\ aslots = << >> /\ aprompt = << >>
    /\ aanswered = << >> /\ asem = 0
    /\ report = NoReport /\ files = {} /\ calls = {} /\ raised = FALSE
    /\ NoExtract
    /\ NoQuery

\* a script run with start_button True and analysis type t selected
click_start(t) ==
    /\ app # ""
    /\ clicks < MaxClicks
    /\ clicks' = clicks + 1
    /\ session_type' = t
    /\ \E o \in StartOutcomes(app, t, env) :
          IF o.kind = "raise"
          THEN /\ session_report' = session_report
               /\ rendered' = Render(FALSE, << >>, o.error)
          ELSE /\ session_report' = IF o.kind = "report" THEN o.data ELSE session_report
               /\ rendered' = display(t, session_report')
    /\ UNCHANGED << script, env, video_limit, resp, replies, extractVars, queryVars, app,
                    queries_file, budget, pc, exit, retrievalVars, analysisVars, report,
                    files, calls, raised >>

\* a script run without a click (another widget was used)
rerun ==
    /\ app # ""
    /\ rendered' = display(session_type, session_report)
    /\ UNCHANGED << script, env, video_limit, resp, replies, extractVars, queryVars, app,
                    session_type, session_report, clicks, queries_file, budget, pc, exit,
                    retrievalVars, analysisVars, report, files, calls, raised >>

NextApp ==
    \/ \E t \in {GOOGLE_TRENDS, YOUTUBE_TRENDS} : click_start(t)
    \/ rerun

SpecApp == InitApp /\ [][NextApp]_vars

-----------------------------------------------------------------------------
(* One query line on its own: generated from the keywords of one trend, then taken
   apart by the scrape worker. A text is a sequence of pieces: "=", "'", or a run of
   characters that holds neither *)

\* a plain keyword, one with "=" inside, one that starts and one that ends with "'"
Keywords == { << "a" >>, << "a", "=", "b" >>, << "'", "a" >>, << "a", "'" >> }

RECURSIVE Join(_, _)
\* sep.join(texts)
Join(texts, sep) ==
    IF texts = << >> THEN << >>
    ELSE IF Len(texts) = 1 THEN texts[1]
    ELSE texts[1] \o << sep >> \o Join(Tail(texts), sep)

\* f"query='{' OR '.join(keywords[:5])}'"
FormatQuery(kws) ==
    << "query", "=", "'" >> \o Join(Prefix(kws, TopKeywords), " OR ") \o << "'" >>

\* text.split("=")[1]: the pieces after the first "=" up to the next one
SplitSecond(text) ==
    LET eqs == { p \in 1..Len(text) : text[p] = "=" }
        first == CHOOSE p \in eqs : \A r \in eqs : p <= r
        later == { p \in eqs : p > first }
        next == IF later = {} THEN Len(text) + 1
                ELSE CHOOSE p \in later : \A r \in later : p <= r
    IN  SubSeq(text, first + 1, next - 1)

RECURSIVE StripApostrophes(_)
\* text.strip("'")
StripApostrophes(text) ==
    IF text = << >> THEN text
    ELSE IF Head(text) = "'" THEN StripApostrophes(Tail(text))
    ELSE IF text[Len(text)] = "'" THEN StripApostrophes(SubSeq(text, 1, Len(text) - 1))
    ELSE text

\* actual_query = query.split("=")[1].strip("'")
ParseQuery(text) == StripApostrophes(SplitSecond(text))

InitQuery ==
    /\ keywords \in SeqSet(Keywords, MaxKeywords) \ { << >> }
    /\ query_line = << >>
    /\ search_text = NoResult
    /\ script = GOOGLE_V2
    /\ env = {}
    /\ video_limit = 0
    /\ resp = HttpError
    /\ replies = {}
    /\ queries_file = NoFile
    /\ budget = -1
    /\ pc = "start" /\ exit = ""
    /\ items = << >> /\ rstate = << >> /\ attempt = << >> /\ slept = << >>
    /\ answered = << >> /\ rslots = << >> /\ rsem = 0 /\ all_results = << >>
    /\ ainput = << >> /\ astate = << >> /\ aslots = << >> /\ aprompt = << >>
    /\ aanswered = << >> /\ asem = 0
    /\ report = NoReport /\ files = {} /\ calls = {} /\ raised = FALSE
    /\ NoExtract
    /\ NoApp

\* generate_and_save_queries / generate_trend_queries, for one trend with keywords
generate_query ==
    /\ keywords # << >>
    /\ query_line = << >>
    /\ query_line' = FormatQuery(keywords)
    /\ UNCHANGED << script, env, video_limit, resp, replies, extractVars, appVars, keywords,
                    search_text, queries_file, budget, pc, exit, retrievalVars,
                    analysisVars, report, files, calls, raised >>

\* search_and_scrape_task, its first statement
parse_query ==
    /\ query_line # << >>
    /\ search_text = NoResult
    /\ search_text' = [text |-> ParseQuery(query_line)]
    /\ UNCHANGED << script, env, video_limit, resp, replies, extractVars, appVars, keywords,
                    query_line, queries_file, budget, pc, exit, retrievalVars,
                    analysisVars, report, files, calls, raised >>

NextQuery ==
    \/ generate_query
    \/ parse_query

SpecQuery == InitQuery /\ [][NextQuery]_vars

-----------------------------------------------------------------------------
(* Properties of the worker pools *)

\* C1: in every pool built on asyncio.gather (Gemini retrieval, thread-pool fetch of
\* the proxy variant, Firecrawl scrape, LLM analysis), whatever the order in which the
\* tasks complete, a result is only ever placed in the slot of its own input item, and
\* when the gather returns the list has one filled slot per input item: element i is
\* the result computed for input item i.
C1_GatherOrder ==
    script \in PipelineScripts \ {YT_NOLLM} =>
        /\ Len(rslots) = Len(items)
        /\ \A i \in 1..Len(rslots) :
              rslots[i] \notin {NoResult, None} =>
                  IF script \in GoogleScripts
                  THEN rslots[i].trend_query = actual_query(items[i])
                  ELSE /\ rslots[i].title = items[i].title
                       /\ rslots[i].video_url = items[i].link
        /\ pc \in {"analysis", "exit"} => \A i \in 1..Len(rslots) : rslots[i] # NoResult
        /\ Len(aslots) = Len(ainput)
        /\ \A k \in 1..Len(aslots) :
              aslots[k] # NoResult =>
                  /\ astate[k] = "done"
                  /\ aslots[k] = analysis_outcome(script, ainput[k], aanswered[k])
        /\ (pc = "exit" /\ exit = "completed") =>
              \A k \in 1..Len(aslots) : aslots[k] # NoResult

\* C1 witness: the analysis of the second of two videos has completed before the
\* analysis of the first, and its result is in the second slot
C1_Witness ==
    /\ script = YT_MAIN
    /\ pc = "analysis"
    /\ Len(ainput) = 2
    /\ astate[1] = "calling"
    /\ aslots[1] = NoResult
    /\ aslots[2] = Analysis(Prompt(script, ainput[2]))

\* C2: the list saved by `without llm.py` (all_transcripts.json) holds the results in
\* input order: element i is the result of the i-th video of the trend list.
C2_SavedListInInputOrder ==
    (script = YT_NOLLM /\ pc = "exit" /\ exit = "completed") =>
        /\ Len(report) = Len(items)
        /\ \A i \in 1..Len(report) :
              /\ report[i].title = items[i].title
              /\ report[i].video_url = items[i].link

C4_ReportLenIsSourceLen ==
    (script \in PipelineScripts /\ pc = "exit" /\ exit = "completed") =>
        Len(report) = Len(items)

\* C5: at no time are more operations in flight than the stage's limit: 10 Gemini
\* retrievals, 10 thread-pool fetches, 15 Firecrawl scrapes, 10 LLM analyses, also
\* when the stage has more items than its limit.
C5_InFlightWithinLimit ==
    /\ script \in GeminiScripts => InFlight(rstate) <= TranscriptSemaphore
    /\ script \in ThreadScripts => InFlight(rstate) <= ExecutorMaxWorkers
    /\ script \in GoogleScripts => InFlight(rstate) <= ScrapeSemaphore
    /\ InFlight(astate) <= AnalysisSemaphore

\* C5 witness: a stage with more items than its limit has as many operations in
\* flight as the limit allows while a further item waits
C5_Witness ==
    /\ pc = "retrieval"
    /\ Len(items) > RetrievalLimit(script)
    /\ InFlight(rstate) = RetrievalLimit(script)
    /\ \E i \in 1..Len(rstate) : rstate[i] = "pending"

\* C29: in the Gemini retrieval stage the permits held are exactly those of the
\* started and unfinished items, one each, also while an item sleeps between two
\* attempts; an item that has returned, on whichever path, holds none, and none is
\* held once the stage has ended.
C29_PermitsHeld ==
    (script \in GeminiScripts /\ pc # "start" /\ pc # "fetch" /\ rstate # << >>) =>
        /\ TranscriptSemaphore - rsem =
               Cardinality({ i \in 1..Len(rstate) : rstate[i] \in {"calling", "sleeping"} })
        /\ pc # "retrieval" => rsem = TranscriptSemaphore

\* C29 witness: one video sleeps between two attempts and holds its permit while
\* another has returned Failed and holds none
C29_Witness ==
    /\ script = YT_MAIN
    /\ pc = "retrieval"
    /\ Len(rstate) = 2
    /\ rstate[1] = "sleeping"
    /\ rstate[2] = "done"
    /\ rslots[2].status = "Failed"
    /\ rsem = TranscriptSemaphore - 1

-----------------------------------------------------------------------------
(* Properties of a run *)

\* C6: the stages are strictly sequential: no LLM analysis of any item is created,
\* started or answered before the retrieval of every item has produced its final
\* result and the retrieval gather has every slot filled.
C6_StagesSequential ==
    (pc = "analysis" \/ "openai" \in calls \/ Len(astate) > 0) =>
        /\ Len(rstate) = Len(items)
        /\ \A i \in 1..Len(rstate) : rstate[i] = "done" /\ rslots[i] # NoResult
        /\ rsem = RetrievalLimit(script)

\* C6 witness: the analysis of the first of two items is in flight after a retrieval
\* stage in which the first item failed and the second finished
C6_Witness ==
    /\ script = YT_PROXY
    /\ pc = "analysis"
    /\ Len(items) = 2
    /\ rslots[1].status = "Failed"
    /\ rslots[2].status = "Success"
    /\ astate = << "calling", "pending" >>
    /\ "openai" \in calls

\* C7: a run that has passed the fatal preconditions (its retrieval stage was given
\* a non-empty item list) ends with the final report written and covering every
\* input item, whatever the retrievals and analyses answered.
C7_ReportAlwaysWritten ==
    (script \in PipelineScripts /\ pc = "exit" /\ Len(items) > 0) =>
        /\ report # NoReport
        /\ Len(report) = Len(items)
        /\ ReportFile(script) \subseteq files

\* C8: when the trend-source fetch fails the run ends there: no per-item retrieval
\* or analysis is created or called, no file is written and no report is built.
C8_FetchFailureAborts ==
    (script \in PipelineScripts /\ "trends" \in calls /\ resp = HttpError) =>
        /\ pc = "exit"
        /\ exit = "fetch failed"
        /\ calls = {"trends"}
        /\ files = {}
        /\ items = << >> /\ rstate = << >> /\ astate = << >>
        /\ report = NoReport

\* C8 witness: the Google Trends script, started beside a query file of an earlier
\* run, has ended on a failed trend fetch
C8_Witness ==
    /\ script = GOOGLE_V2
    /\ resp = HttpError
    /\ queries_file = << StaleQuery >>
    /\ "trends" \in calls
    /\ pc = "exit"

\* C9: a run that ends on a fatal precondition (a missing key, a failed trend fetch,
\* an empty trend list, no usable video, no query) has written no file at all.
C9_FatalExitWritesNoFile ==
    (pc = "exit" /\ exit \in {"missing keys", "fetch failed", "no trending", "no videos",
                              "queries file not found", "no queries"}) =>
        files = {}

\* C10: in every script, when a key the script uses is missing from the environment
\* the run makes no network call.
C10_MissingKeyNoNetworkCall ==
    ~(KeysUsed(script) \subseteq env) => calls = {}

-----------------------------------------------------------------------------
(* Properties of the retrievers *)

\* C11 (as the code has it): the Gemini retriever makes at most 3 attempts for one
\* item (range(max_retries), max_retries = 3) and the thread-pool transcript
\* retriever at most 4 (range(max_retries + 1): one attempt and 3 retries); a result
\* that reports exhaustion is returned after exactly that many attempts.
C11_AttemptsBounded ==
    script \in YouTubeScripts =>
        \A i \in 1..Len(rstate) :
            /\ script \in GeminiScripts => attempt[i] + 1 <= GeminiMaxRetries
            /\ script \in ThreadScripts => attempt[i] + 1 <= ThreadMaxRetries + 1
            /\ (rstate[i] = "done" /\ rslots[i].status = "Failed") =>
                  IF script \in ThreadScripts
                  THEN attempt[i] + 1 = ThreadMaxRetries + 1
                  ELSE rslots[i].error = RateLimited => attempt[i] + 1 = GeminiMaxRetries

\* C11 witness: the thread-pool retriever has returned Failed for a video with a
\* supported link after its fourth attempt
C11_Witness ==
    /\ script = YT_PROXY
    /\ Len(items) >= 1
    /\ items[1].link = "ok"
    /\ rstate[1] = "done"
    /\ rslots[1].status = "Failed"
    /\ attempt[1] = 3
    /\ slept[1] = << RetryDelay, RetryDelay, RetryDelay >>

\* C11 as stated: no retriever makes more than 3 attempts for one item.
C11_AtMostThreeAttempts ==
    script \in YouTubeScripts =>
        \A i \in 1..Len(rstate) : rstate[i] # "pending" => attempt[i] + 1 <= 3

\* C12: in the Gemini retriever the sleeps of one item are 5 s after the first
\* rate-limit failure and 10 s after the second, in that order, and none after the
\* third attempt: rate limits on attempts 1 and 2 and an answer on attempt 3 give
\* Success after sleeps of exactly 5 s then 10 s, and three rate limits give the
\* rate-limit failure after the same two sleeps.
C12_GeminiBackoff ==
    script \in GeminiScripts =>
        \A i \in 1..Len(rstate) :
            /\ Len(slept[i]) <= 2
            /\ \A k \in 1..Len(slept[i]) : slept[i][k] = IF k = 1 THEN 5 ELSE 10
            /\ Len(slept[i]) = attempt[i] + (IF rstate[i] = "sleeping" THEN 1 ELSE 0)
            /\ (rstate[i] = "done" /\ rslots[i].status = "Failed"
                    /\ rslots[i].error = RateLimited) => slept[i] = << 5, 10 >>
            /\ (rstate[i] = "done" /\ attempt[i] = 2 /\ answered[i].kind = "text"
                    /\ UrlSupported(items[i].link)) =>
                  rslots[i].status = "Success" /\ slept[i] = << 5, 10 >>

\* C12 witness: a video whose third Gemini call answered after two rate limits
C12_Witness ==
    /\ script = YT_MAIN
    /\ Len(items) >= 1
    /\ rstate[1] = "done"
    /\ attempt[1] = 2
    /\ rslots[1].status = "Success"
    /\ slept[1] = << 5, 10 >>

\* C21: in the Gemini retriever only a rate-limit answer is followed by a sleep and
\* another call; after any other failure, on whichever attempt, the item is done at
\* once, Failed with that failure's message, with no sleep after it and no later call.
C21_OnlyRateLimitRetried ==
    script \in GeminiScripts =>
        \A i \in 1..Len(rstate) :
            /\ rstate[i] = "sleeping" => answered[i] = RateLimit
            /\ answered[i] = CallError =>
                  /\ rstate[i] = "done"
                  /\ rslots[i].status = "Failed"
                  /\ rslots[i].error = "upstream error"
                  /\ Len(slept[i]) = attempt[i]

\* C21 witness: the second call of a video failed with another error after the first
\* was rate-limited: Failed with that error after the one sleep of 5 s
C21_Witness ==
    /\ script = YT_MAIN
    /\ Len(items) >= 1
    /\ rstate[1] = "done"
    /\ attempt[1] = 1
    /\ answered[1] = CallError
    /\ rslots[1].status = "Failed"
    /\ rslots[1].error = "upstream error"
    /\ slept[1] = << 5 >>

\* C22: no call to the upstream content provider (Gemini, the transcript API) is
\* made for an item whose link has none of the supported shapes.
C22_NoCallForBadUrl ==
    script \in YouTubeScripts =>
        \A i \in 1..Len(rstate) :
            ~UrlSupported(items[i].link) =>
                rstate[i] # "calling" /\ answered[i] = NoCall

\* C13: every result a YouTube retriever returns has status Success or Failed, has
\* the transcript field exactly when its status is Success and the error field
\* exactly when its status is Failed.
C13_ContentIffSuccess ==
    script \in YouTubeScripts =>
        \A i \in 1..Len(rslots) :
            rslots[i] # NoResult =>
                /\ "status" \in DOMAIN rslots[i]
                /\ rslots[i].status \in {"Success", "Failed"}
                /\ "transcript" \in DOMAIN rslots[i] <=> rslots[i].status = "Success"
                /\ "error" \in DOMAIN rslots[i] <=> rslots[i].status = "Failed"

\* C13 witness: a retrieval stage that returned one Success and one Failed result
C13_Witness ==
    /\ script \in YouTubeScripts
    /\ pc = "analysis"
    /\ Len(rslots) = 2
    /\ rslots[1].status = "Failed"
    /\ rslots[2].status = "Success"

\* C18: an item whose link has none of the supported shapes ends retrieval as Failed
\* with the identifier-extraction error, whatever the upstream provider answered, and
\* the final report still holds it at its original position.
C18_BadUrlFailsWithExtractionError ==
    script \in YouTubeScripts =>
        \A i \in 1..Len(rstate) :
            (rstate[i] = "done" /\ ~UrlSupported(items[i].link)) =>
                /\ rslots[i].status = "Failed"
                /\ rslots[i].error \in
                       {InvalidUrl,
                        "All attempts failed. Last error: Invalid or unsupported YouTube URL format"}
                /\ (pc = "exit" /\ exit = "completed" /\ report # NoReport) =>
                       /\ Len(report) = Len(items)
                       /\ report[i].title = items[i].title

\* C20: the queries a Google Trends run scrapes are exactly the queries generated from
\* the trends it fetched itself, never lines an earlier run left in trend_queries.md.
C20_NoCrossRunState ==
    (script \in GoogleScripts /\ "trends" \in calls) =>
        items = IF FetchFailed(resp) THEN << >> ELSE generate_queries(TrendList(resp))

-----------------------------------------------------------------------------
(* Properties of the analyzers *)

\* C14: the LLM analyzer never raises: when the call fails or its reply does not
\* parse, the slot of that item holds exactly the sentinel (context "Error during
\* analysis.", category "Error"), the items whose reply was a proper analysis keep
\* that analysis, and the run goes on to a report with one entry per analysed item.
C14_AnalyzerNeverRaises ==
    /\ ~raised
    /\ exit # "exception"
    /\ \A k \in 1..Len(astate) :
          astate[k] = "done" =>
              /\ aanswered[k] \in {NotJson, CallError} =>
                    /\ aslots[k] = Sentinel
                    /\ aslots[k].context = << "Error during analysis." >>
                    /\ aslots[k].category = "Error"
              /\ aanswered[k] = JsonAnalysis => aslots[k] = Analysis(aprompt[k])
    /\ (script \in AnalysisScripts /\ pc = "exit" /\ Len(ainput) > 0) =>
          /\ exit = "completed"
          /\ Len(report) = Len(ainput)
          /\ \A k \in 1..Len(report) : report[k].llm_analysis = aslots[k]

\* C14 witness: of two analyses the first one's reply did not parse and the second
\* one's did; the report holds the sentinel and then the analysis
C14_Witness ==
    /\ pc = "exit"
    /\ exit = "completed"
    /\ Len(ainput) = 2
    /\ aanswered = << NotJson, JsonAnalysis >>
    /\ report[1].llm_analysis = Sentinel
    /\ report[2].llm_analysis = Analysis(aprompt[2])

\* C15: every analysis stored in a report is a well-formed AnalysisResult whatever
\* JSON the reply carries: present, not null, with the fields context, summary and
\* category, and a summary of at most 5 elements.
C15_AnalysisWellFormed ==
    (script \in AnalysisScripts /\ pc = "exit" /\ exit = "completed") =>
        \A k \in 1..Len(report) :
            /\ "llm_analysis" \in DOMAIN report[k]
            /\ report[k].llm_analysis # None
            /\ {"context", "summary", "category"} \subseteq DOMAIN report[k].llm_analysis
            /\ Len(report[k].llm_analysis.summary) <= 5

\* C16: the YouTube analyzer builds the content prompt exactly when the retrieval
\* result has status Success and a non-empty transcript; for a Failed result and for
\* a Success with an empty transcript it builds the title-only prompt, which holds
\* nothing of the content; on both paths it returns a result without raising.
C16_ContentPathIffSuccess ==
    script \in YouTubeScripts =>
        /\ ~raised
        /\ \A k \in 1..Len(aprompt) :
              aprompt[k] # << >> =>
                  IF ainput[k].status = "Success" /\ ainput[k].transcript > 0
                  THEN /\ Len(aprompt[k]) = 3
                       /\ aprompt[k][1] = "content"
                       /\ aprompt[k][2] = ainput[k].title
                  ELSE aprompt[k] = << "title only", ainput[k].title >>
        /\ \A k \in 1..Len(astate) : astate[k] = "done" => aslots[k] # NoResult

\* C16 witness: a Success with an empty transcript analysed from its title and a
\* Success with a transcript analysed from its content, both analyses returned
C16_Witness ==
    /\ script = YT_MAIN
    /\ astate = << "done", "done" >>
    /\ ainput[1].status = "Success" /\ ainput[1].transcript = 0
    /\ ainput[2].status = "Success" /\ ainput[2].transcript > 0
    /\ aprompt[1] = << "title only", 1 >>
    /\ aprompt[2][1] = "content"

\* C17: the content handed to the LLM has min(len(content), 15000) characters: a
\* content of more than 15000 characters is cut to exactly 15000, one of 15000 or
\* fewer is handed over whole (YouTube transcripts and Google scraped content).
C17_Truncation ==
    script \in AnalysisScripts =>
        \A k \in 1..Len(aprompt) :
            (aprompt[k] # << >> /\ aprompt[k][1] = "content") =>
                LET n == IF script \in GoogleScripts THEN ainput[k].scraped_content
                         ELSE ainput[k].transcript
                IN  aprompt[k][3] = IF n > 15000 THEN 15000 ELSE n

\* C17 witness: a content of 15001 characters handed over as 15000 and a content of
\* 14999 characters handed over whole
C17_Witness ==
    /\ script = GOOGLE_V2
    /\ astate = << "done", "done" >>
    /\ ainput[1].scraped_content = 15001
    /\ ainput[2].scraped_content = 14999
    /\ aprompt[1][3] = 15000
    /\ aprompt[2][3] = 14999

\* C30: every YouTube run that has entered retrieval with N items eventually ends
\* completed, with a final retrieval result for each of the N items and, in the
\* scripts that analyse, an analysis for each and the report of N items; also when N
\* exceeds the concurrency limit and whichever calls fail.
C30_RunTerminates ==
    (script \in YouTubeScripts /\ pc = "retrieval") ~>
        /\ pc = "exit" /\ exit = "completed"
        /\ \A i \in 1..Len(items) : rstate[i] = "done" /\ rslots[i] # NoResult
        /\ IF script = YT_NOLLM THEN Len(all_results) = Len(items)
           ELSE /\ Len(aslots) = Len(items)
                /\ \A k \in 1..Len(items) : astate[k] = "done" /\ aslots[k] # NoResult
                /\ report # NoReport
                /\ Len(report) = Len(items)

\* C30 witness: a Gemini run on more videos than permits, in which one call failed,
\* has ended with its report
C30_Witness ==
    /\ script \in GeminiScripts
    /\ pc = "exit" /\ exit = "completed"
    /\ Len(items) > TranscriptSemaphore
    /\ \E i \in 1..Len(items) : rslots[i].status = "Failed"
    /\ Len(report) = Len(items)

-----------------------------------------------------------------------------
(* Properties of the report *)

\* C23: every item of the final YouTube report carries its retrieval outcome: a
\* status field that is Success or Failed, and the error when it is Failed.
C23_ReportCarriesStatus ==
    (script \in YouTubeScripts /\ report # NoReport) =>
        \A k \in 1..Len(report) :
            /\ "status" \in DOMAIN report[k]
            /\ report[k].status \in {"Success", "Failed"}
            /\ report[k].status = "Failed" => "error" \in DOMAIN report[k]

-----------------------------------------------------------------------------
(* Properties of the Streamlit apps *)

\* C25: when the report section is drawn for a report of the selected type, the Google
\* Trends display shows exactly the items whose analysis is non-empty and whose
\* context is not "Error during analysis.", and the YouTube display shows every item.
C25_DisplayPolicies ==
    (app # "" /\ rendered.header /\ rendered = display(session_type, session_report)) =>
        LET n == Len(session_report.items)
            IsKept(k) == /\ session_report.items[k].llm_analysis # None
                         /\ session_report.items[k].llm_analysis # Sentinel
        IN  /\ (session_type = GOOGLE_TRENDS /\ session_report.shape = "list") =>
                  rendered.shown = SelectSeq([k \in 1..n |-> k], IsKept)
            /\ (session_type = YOUTUBE_TRENDS /\ session_report.shape = "object") =>
                  rendered.shown = [k \in 1..n |-> k]

\* C26: the stored analysis_type always matches the shape of the stored report_data:
\* "Google Trends" with a top-level list, "YouTube Trends" with an object that
\* carries final_report.
C26_TypeMatchesShape ==
    (app # "" /\ session_report # Absent) =>
        session_report.shape = IF session_type = GOOGLE_TRENDS THEN "list" ELSE "object"

\* C27: in app.py a YouTube Trends click with the SearchAPI and OpenAI keys present
\* never ends with an uncaught error.
C27_YouTubeClickNeverRaises ==
    (app = APP /\ session_type = YOUTUBE_TRENDS /\ KeysTested(YOUTUBE_TRENDS) \subseteq env) =>
        rendered.error # "TypeError"

-----------------------------------------------------------------------------
(* Properties of the query lines *)

\* C28: the search text the scrape worker takes from a generated query line equals
\* the first 5 keywords joined by " OR ", also when a keyword contains "=" or starts
\* or ends with an apostrophe.
C28_QueryRoundTrip ==
    search_text # NoResult =>
        search_text.text = Join(Prefix(keywords, 5), " OR ")

-----------------------------------------------------------------------------
(* Properties of extract_video_id *)

\* C19: every copy of extract_video_id returns the video id for a URL of one of the
\* three shapes (youtube.com/watch?v=ID, youtu.be/ID, youtube.com/embed/ID, with or
\* without scheme, www. and further parameters) and raises ValueError, returning no
\* id at all, for every other URL.
C19_ExtractVideoId ==
    extracted # NoResult =>
        LET watch == { s \o w \o << "youtube.com/", "watch", "?", "v=", "ID" >> \o t :
                         s \in Schemes, w \in Wwws, t \in { << >>, << "&", "t=1" >> } }
            short == { s \o << "youtu.be/", "ID" >> \o t :
                         s \in Schemes, t \in { << >>, << "?", "t=1" >> } }
            embed == { s \o w \o << "youtube.com/", "embed/", "ID" >> \o t :
                         s \in Schemes, w \in Wwws, t \in { << >>, << "?", "t=1" >> } }
        IN  IF url \in watch \cup short \cup embed
            THEN extracted = [id |-> << "ID" >>]
            ELSE "raise" \in DOMAIN extracted

====
